---------------------------- MODULE Spec2Model ----------------------------
(***************************************************************************)
(* A model of the hotel booking assistant of main2.py: the catalog         *)
(* HOTEL_DATA, the four tools, the tool registry, process_hotel_query and  *)
(* the driver main; and of main of main.py, which shares the first three.  *)
(*                                                                         *)
(* Python strings that the code transforms or compares (locations, hotel   *)
(* names, tool names, the tools' error texts) are sequences of ASCII       *)
(* codes, so that lower(), replace() and join() are computed character by  *)
(* character.  Text that the code only passes along (a query, the model's  *)
(* reply, an exception's message) is a TLA+ string.                        *)
(***************************************************************************)
EXTENDS Integers, Sequences, FiniteSets

VARIABLES
    HOTEL_DATA,   \* the module-level catalog dict
    api_key,      \* whether OPENAI_API_KEY is set in the environment
    pc,           \* position of the running program
    qi,           \* index of the query main is handling (1..NumQueries)
    messages,     \* process_hotel_query: the conversation
    ai_msg,       \* process_hotel_query: the model's first reply, None before it
    final_response, \* process_hotel_query: the model's second reply, None before it
    tc,           \* process_hotel_query: index of the next tool call of the loop
    results,      \* process_hotel_query: the "Tool: ... Result: ..." texts
    tool_call,    \* the tool call being (or last) handled
    tool_output,  \* the output of the last tool invocation
    response,     \* the value returned by process_hotel_query
    llm_log,      \* the conversations sent to the chat model for this query
    tool_log,     \* the tool invocations made for this query
    printed,      \* number of responses main has printed
    probe         \* one earlier tool invocation, kept to compare repeats with

vars == <<HOTEL_DATA, api_key, pc, qi, messages, ai_msg, final_response, tc, results,
          tool_call, tool_output, response, llm_log, tool_log, printed, probe>>

-----------------------------------------------------------------------------
(* Text literals of the source.                                            *)

\* "No hotels found for location: "
txt_no_hotels_found ==
    <<78, 111, 32, 104, 111, 116, 101, 108, 115, 32, 102, 111, 117, 110, 100, 32, 102, 111,
      114, 32, 108, 111, 99, 97, 116, 105, 111, 110, 58, 32>>
\* ". Available locations: "
txt_available_locations ==
    <<46, 32, 65, 118, 97, 105, 108, 97, 98, 108, 101, 32, 108, 111, 99, 97, 116, 105, 111,
      110, 115, 58, 32>>
\* ", "
txt_comma == <<44, 32>>
\* "Location '"
txt_location == <<76, 111, 99, 97, 116, 105, 111, 110, 32, 39>>
\* "' not found"
txt_not_found == <<39, 32, 110, 111, 116, 32, 102, 111, 117, 110, 100>>
\* "Hotel '"
txt_hotel == <<72, 111, 116, 101, 108, 32, 39>>
\* "' not found in "
txt_not_found_in == <<39, 32, 110, 111, 116, 32, 102, 111, 117, 110, 100, 32, 105, 110, 32>>
\* "search_hotels"
tool_search_hotels == <<115, 101, 97, 114, 99, 104, 95, 104, 111, 116, 101, 108, 115>>
\* "get_hotel_details"
tool_get_hotel_details ==
    <<103, 101, 116, 95, 104, 111, 116, 101, 108, 95, 100, 101, 116, 97, 105, 108, 115>>
\* "calculate_booking_cost"
tool_calculate_booking_cost ==
    <<99, 97, 108, 99, 117, 108, 97, 116, 101, 95, 98, 111, 111, 107, 105, 110, 103, 95, 99,
      111, 115, 116>>
\* "get_available_locations"
tool_get_available_locations ==
    <<103, 101, 116, 95, 97, 118, 97, 105, 108, 97, 98, 108, 101, 95, 108, 111, 99, 97, 116,
      105, 111, 110, 115>>

-----------------------------------------------------------------------------
(* The catalog.                                                            *)

\* HOTEL_DATA as written in the source: a dict in insertion order, modelled as the
\* sequence of its (key, value) entries; rating is in tenths of a star.
HotelDataLiteral ==
  <<
    \* "new_york"
    [key |-> <<110, 101, 119, 95, 121, 111, 114, 107>>, value |-> <<
        \* "The Plaza Hotel"
        [name |-> <<84, 104, 101, 32, 80, 108, 97, 122, 97, 32, 72, 111, 116, 101, 108>>,
         rating |-> 45,
         price_per_night |-> 450,
         amenities |-> <<"WiFi", "Pool", "Spa", "Gym", "Restaurant">>,
         availability |-> TRUE],
        \* "The Standard High Line"
        [name |-> <<84, 104, 101, 32, 83, 116, 97, 110, 100, 97, 114, 100, 32, 72, 105, 103, 104, 32, 76, 105, 110, 101>>,
         rating |-> 42,
         price_per_night |-> 320,
         amenities |-> <<"WiFi", "Bar", "Gym", "Pet-friendly">>,
         availability |-> TRUE],
        \* "Pod Hotel Brooklyn"
        [name |-> <<80, 111, 100, 32, 72, 111, 116, 101, 108, 32, 66, 114, 111, 111, 107, 108, 121, 110>>,
         rating |-> 40,
         price_per_night |-> 180,
         amenities |-> <<"WiFi", "Restaurant", "Rooftop Bar">>,
         availability |-> FALSE] >>],
    \* "paris"
    [key |-> <<112, 97, 114, 105, 115>>, value |-> <<
        \* "Hotel Plaza Athenee"
        [name |-> <<72, 111, 116, 101, 108, 32, 80, 108, 97, 122, 97, 32, 65, 116, 104, 101, 110, 101, 101>>,
         rating |-> 48,
         price_per_night |-> 680,
         amenities |-> <<"WiFi", "Spa", "Restaurant", "Concierge", "Bar">>,
         availability |-> TRUE],
        \* "Le Marais Hotel"
        [name |-> <<76, 101, 32, 77, 97, 114, 97, 105, 115, 32, 72, 111, 116, 101, 108>>,
         rating |-> 41,
         price_per_night |-> 280,
         amenities |-> <<"WiFi", "Restaurant", "Historic Building">>,
         availability |-> TRUE],
        \* "Hotel des Grands Boulevards"
        [name |-> <<72, 111, 116, 101, 108, 32, 100, 101, 115, 32, 71, 114, 97, 110, 100, 115, 32, 66, 111, 117, 108, 101, 118, 97, 114, 100, 115>>,
         rating |-> 43,
         price_per_night |-> 350,
         amenities |-> <<"WiFi", "Restaurant", "Bar", "Garden">>,
         availability |-> TRUE] >>],
    \* "tokyo"
    [key |-> <<116, 111, 107, 121, 111>>, value |-> <<
        \* "The Ritz-Carlton Tokyo"
        [name |-> <<84, 104, 101, 32, 82, 105, 116, 122, 45, 67, 97, 114, 108, 116, 111, 110, 32, 84, 111, 107, 121, 111>>,
         rating |-> 47,
         price_per_night |-> 520,
         amenities |-> <<"WiFi", "Spa", "Pool", "Multiple Restaurants", "City View">>,
         availability |-> TRUE],
        \* "Shibuya Excel Hotel Tokyu"
        [name |-> <<83, 104, 105, 98, 117, 121, 97, 32, 69, 120, 99, 101, 108, 32, 72, 111, 116, 101, 108, 32, 84, 111, 107, 121, 117>>,
         rating |-> 42,
         price_per_night |-> 290,
         amenities |-> <<"WiFi", "Restaurant", "City Center", "Shopping Access">>,
         availability |-> TRUE],
        \* "Capsule Hotel Shinjuku 510"
        [name |-> <<67, 97, 112, 115, 117, 108, 101, 32, 72, 111, 116, 101, 108, 32, 83, 104, 105, 110, 106, 117, 107, 117, 32, 53, 49, 48>>,
         rating |-> 38,
         price_per_night |-> 80,
         amenities |-> <<"WiFi", "Shared Bath", "Lockers">>,
         availability |-> FALSE] >>],
    \* "london"
    [key |-> <<108, 111, 110, 100, 111, 110>>, value |-> <<
        \* "The Savoy"
        [name |-> <<84, 104, 101, 32, 83, 97, 118, 111, 121>>,
         rating |-> 46,
         price_per_night |-> 590,
         amenities |-> <<"WiFi", "Spa", "Multiple Restaurants", "Theatre District", "River View">>,
         availability |-> TRUE],
        \* "Premier Inn London City"
        [name |-> <<80, 114, 101, 109, 105, 101, 114, 32, 73, 110, 110, 32, 76, 111, 110, 100, 111, 110, 32, 67, 105, 116, 121>>,
         rating |-> 40,
         price_per_night |-> 120,
         amenities |-> <<"WiFi", "Restaurant", "24/7 Reception">>,
         availability |-> TRUE],
        \* "The Zetter Townhouse"
        [name |-> <<84, 104, 101, 32, 90, 101, 116, 116, 101, 114, 32, 84, 111, 119, 110, 104, 111, 117, 115, 101>>,
         rating |-> 44,
         price_per_night |-> 380,
         amenities |-> <<"WiFi", "Bar", "Boutique Style", "Historic">>,
         availability |-> TRUE] >>],
    \* "dubai"
    [key |-> <<100, 117, 98, 97, 105>>, value |-> <<
        \* "Burj Al Arab Jumeirah"
        [name |-> <<66, 117, 114, 106, 32, 65, 108, 32, 65, 114, 97, 98, 32, 74, 117, 109, 101, 105, 114, 97, 104>>,
         rating |-> 49,
         price_per_night |-> 1200,
         amenities |-> <<"WiFi", "Multiple Pools", "Spa", "Private Beach", "Butler Service">>,
         availability |-> TRUE],
        \* "Atlantis The Palm"
        [name |-> <<65, 116, 108, 97, 110, 116, 105, 115, 32, 84, 104, 101, 32, 80, 97, 108, 109>>,
         rating |-> 45,
         price_per_night |-> 480,
         amenities |-> <<"WiFi", "Water Park", "Aquarium", "Multiple Restaurants", "Beach">>,
         availability |-> TRUE],
        \* "Rove Downtown Dubai"
        [name |-> <<82, 111, 118, 101, 32, 68, 111, 119, 110, 116, 111, 119, 110, 32, 68, 117, 98, 97, 105>>,
         rating |-> 41,
         price_per_night |-> 150,
         amenities |-> <<"WiFi", "Pool", "Gym", "Restaurant", "City Center">>,
         availability |-> FALSE] >>]
  >>

-----------------------------------------------------------------------------
(* Python built-ins used by the tools.                                     *)

\* None, and a present optional value
None == <<>>
Some(v) == <<v>>

\* a faulty lower(): the text is left as it is
LowerChar_Identity(c) == c

\* str.lower() on ASCII text
LowerChar(c) == IF c >= 65 /\ c <= 90 THEN c + 32 ELSE c
Lower(s) == [i \in 1..Len(s) |-> LowerChar(s[i])]

\* str.replace(" ", "_")
ReplaceSpaces(s) == [i \in 1..Len(s) |-> IF s[i] = 32 THEN 95 ELSE s[i]]

\* sep.join(parts)
RECURSIVE Join(_, _)
Join(parts, sep) ==
    IF parts = <<>> THEN <<>>
    ELSE IF Len(parts) = 1 THEN parts[1]
    ELSE parts[1] \o sep \o Join(Tail(parts), sep)

\* round(x, 2) of an amount given in thousandths, as an amount in hundredths:
\* to the nearest hundredth, a tie going to the even one
Round2(milli) ==
    LET q == milli \div 10
        r == milli % 10
    IN  IF r < 5 THEN q
        ELSE IF r > 5 THEN q + 1
        ELSE IF q % 2 = 0 THEN q ELSE q + 1

\* dict operations on a sequence of (key, value) entries
DictKeys(d) == [i \in 1..Len(d) |-> d[i].key]
DictHas(d, k) == \E i \in 1..Len(d) : d[i].key = k
DictGet(d, k) == d[CHOOSE i \in 1..Len(d) : d[i].key = k].value

-----------------------------------------------------------------------------
(* The four tools.                                                         *)

\* a faulty normalisation: spaces are replaced but the case is kept
NormalizeLocation_KeepCase(location) == ReplaceSpaces(location)

\* location.lower().replace(" ", "_")
NormalizeLocation(location) == ReplaceSpaces(Lower(location))

\* a faulty test of the optional filter: "if max_price:", which takes 0 for no filter
HasMaxPrice_Truthy(max_price) == max_price # None /\ max_price[1] # 0

\* "max_price is not None"
HasMaxPrice(max_price) == max_price # None

\* max_price is None or Some(n)
search_hotels(location, max_price) ==
    LET location_key == NormalizeLocation(location)
    IN  IF ~DictHas(HOTEL_DATA, location_key)
        THEN [error |-> txt_no_hotels_found \o location \o txt_available_locations
                        \o Join(DictKeys(HOTEL_DATA), txt_comma)]
        ELSE LET hotels == DictGet(HOTEL_DATA, location_key)
                 available == SelectSeq(hotels, LAMBDA hotel : hotel.availability)
                 available_hotels ==
                     IF HasMaxPrice(max_price)
                     THEN SelectSeq(available,
                                    LAMBDA hotel : hotel.price_per_night <= max_price[1])
                     ELSE available
             IN  [location |-> location,
                  total_available |-> Len(available_hotels),
                  hotels |-> available_hotels]

get_hotel_details(location, hotel_name) ==
    LET location_key == NormalizeLocation(location)
    IN  IF ~DictHas(HOTEL_DATA, location_key)
        THEN [error |-> txt_location \o location \o txt_not_found]
        ELSE LET hotels == DictGet(HOTEL_DATA, location_key)
                 hits == {i \in 1..Len(hotels) : Lower(hotels[i].name) = Lower(hotel_name)}
             IN  IF hits # {}
                 THEN LET hotel == hotels[CHOOSE i \in hits : \A j \in hits : i <= j]
                      IN  [location |-> location,
                           hotel_details |-> hotel,
                           estimated_weekly_cost |-> hotel.price_per_night * 7,
                           estimated_monthly_cost |-> hotel.price_per_night * 30]
                 ELSE [error |-> txt_hotel \o hotel_name \o txt_not_found_in \o location]

\* 0.12, in thousandths
DefaultTaxRate == 120

\* a faulty cost: the tax is taken on one night's price
calculate_booking_cost_TaxOnPrice(price_per_night, nights, tax_rate) ==
    LET subtotal == price_per_night * nights
        tax == price_per_night * tax_rate
        total == subtotal * 1000 + tax
    IN  [price_per_night |-> price_per_night,
         nights |-> nights,
         subtotal |-> subtotal,
         tax |-> Round2(tax),
         total_cost |-> Round2(total)]

\* tax_rate is in thousandths (0.12 is 120); subtotal is in whole currency units, as
\* the product of two ints; tax and total_cost are the rounded floats, in hundredths
calculate_booking_cost(price_per_night, nights, tax_rate) ==
    LET subtotal == price_per_night * nights
        tax == subtotal * tax_rate              \* in thousandths
        total == subtotal * 1000 + tax          \* in thousandths
    IN  [price_per_night |-> price_per_night,
         nights |-> nights,
         subtotal |-> subtotal,
         tax |-> Round2(tax),
         total_cost |-> Round2(total)]

\* a faulty listing: the keys ordered by their first letter, not as the catalog has them
get_available_locations_Unordered ==
    LET keys == DictKeys(HOTEL_DATA)
        rank(i) == Cardinality({j \in 1..Len(keys) : keys[j][1] < keys[i][1]})
    IN  [available_locations |->
             [n \in 1..Len(keys) |-> keys[CHOOSE i \in 1..Len(keys) : rank(i) = n - 1]],
         total_locations |-> Len(HOTEL_DATA)]

get_available_locations ==
    [available_locations |-> DictKeys(HOTEL_DATA),
     total_locations |-> Len(HOTEL_DATA)]

-----------------------------------------------------------------------------
(* The tool registry and a tool's invocation.                              *)

\* tool_map of process_hotel_query
tool_map ==
    <<[key |-> tool_search_hotels, value |-> tool_search_hotels],
      [key |-> tool_get_hotel_details, value |-> tool_get_hotel_details],
      [key |-> tool_calculate_booking_cost, value |-> tool_calculate_booking_cost],
      [key |-> tool_get_available_locations, value |-> tool_get_available_locations]>>

\* a faulty lookup: the name is looked up as the model wrote it
SelectTool_ExactName(name) ==
    IF DictHas(tool_map, name) THEN Some(DictGet(tool_map, name)) ELSE None

\* tool_map.get(tool_call["name"].lower()): the selected tool, or None
SelectTool(name) ==
    IF DictHas(tool_map, Lower(name)) THEN Some(DictGet(tool_map, Lower(name))) ELSE None

\* the parameters a tool's signature requires
RequiredArgs(tool) ==
    IF tool = tool_search_hotels THEN {"location"}
    ELSE IF tool = tool_get_hotel_details THEN {"location", "hotel_name"}
    ELSE IF tool = tool_calculate_booking_cost THEN {"price_per_night", "nights"}
    ELSE {}

\* selected_tool.invoke(args): the call fails when a required argument is missing,
\* otherwise the function runs with the defaults of its signature
ToolInvoke(tool, args) ==
    IF ~(RequiredArgs(tool) \subseteq DOMAIN args)
    THEN [raised |-> TRUE, exception |-> "validation error"]
    ELSE [raised |-> FALSE,
          output |->
            IF tool = tool_search_hotels
            THEN search_hotels(args.location,
                               IF "max_price" \in DOMAIN args
                               THEN Some(args.max_price) ELSE None)
            ELSE IF tool = tool_get_hotel_details
            THEN get_hotel_details(args.location, args.hotel_name)
            ELSE IF tool = tool_calculate_booking_cost
            THEN calculate_booking_cost(args.price_per_night, args.nights,
                                        IF "tax_rate" \in DOMAIN args
                                        THEN args.tax_rate ELSE DefaultTaxRate)
            ELSE get_available_locations]

\* a faulty search: the hotels of the catalog are marked as taken once searched
CatalogAfterTool_Booked(tool, args) ==
    IF tool = tool_search_hotels
    THEN [i \in 1..Len(HOTEL_DATA) |->
            [HOTEL_DATA[i] EXCEPT !.value =
                [j \in 1..Len(@) |-> [@[j] EXCEPT !.availability = FALSE]]]]
    ELSE HOTEL_DATA

\* HOTEL_DATA after a tool has run: no tool assigns to the catalog or to a record of it
CatalogAfterTool(tool, args) == HOTEL_DATA

-----------------------------------------------------------------------------
(* Texts built by process_hotel_query: a text is a sequence of segments, a *)
(* literal, a character string or the str() of a value; "" is <<>>.        *)

Text(s) == IF s = "" THEN <<>> ELSE <<[lit |-> s]>>
Str(value) == <<[repr |-> value]>>

HumanMessage(query) == [type |-> "human", content |-> Text(query), tool_call_id |-> 0]
ToolMessage(content, id) == [type |-> "tool", content |-> content, tool_call_id |-> id]

\* f"Tool: {tool_call['name']}\nResult: {tool_output}"
ToolResultText(name, output) ==
    Text("Tool: ") \o <<[chars |-> name]>> \o Text("\nResult: ") \o Str(output)

\* response_parts of process_hotel_query, joined with a blank line
CombinedResponse(res, final_content) ==
    LET response_parts ==
            (IF res # <<>> THEN res ELSE <<>>)
            \o (IF final_content # "" THEN <<Text("AI Response: ") \o Text(final_content)>>
                ELSE <<>>)
    IN  Join(response_parts, Text("\n\n"))

\* a faulty handler: the exception's text alone
ErrorResponse_Bare(e) == Text(e)

\* f"Error processing query: {str(e)}"
ErrorResponse(e) == Text("Error processing query: ") \o Text(e)

\* a faulty final turn: the query alone is sent again
FinalTurnMessages_QueryOnly(msgs) == <<msgs[1]>>

\* the conversation handed to the model for the final turn
FinalTurnMessages(msgs) == msgs

-----------------------------------------------------------------------------
(* Bounds and the inputs the environment supplies.                         *)

\* the most tool calls in one reply of the chat model
MaxToolCalls == 2
\* max_price ranges over the multiples of 10 from -10 to 10 * MaxPriceTens
MaxPriceTens == 121
\* nights ranges over -1..MaxNights
MaxNights == 7

\* "Tokyo"
in_Tokyo == <<84, 111, 107, 121, 111>>
\* "TOKYO"
in_TOKYO == <<84, 79, 75, 89, 79>>
\* "New York"
in_New_York == <<78, 101, 119, 32, 89, 111, 114, 107>>
\* "new york"
in_new_york_sp == <<110, 101, 119, 32, 121, 111, 114, 107>>
\* "NEW_YORK"
in_NEW_YORK == <<78, 69, 87, 95, 89, 79, 82, 75>>
\* "new  york"
in_new__york == <<110, 101, 119, 32, 32, 121, 111, 114, 107>>
\* "atlantis"
in_atlantis == <<97, 116, 108, 97, 110, 116, 105, 115>>
\* "to kyo"
in_to_kyo == <<116, 111, 32, 107, 121, 111>>
\* "the savoy"
in_the_savoy == <<116, 104, 101, 32, 115, 97, 118, 111, 121>>
\* "THE SAVOY"
in_THE_SAVOY == <<84, 72, 69, 32, 83, 65, 86, 79, 89>>
\* "savoy"
in_savoy == <<115, 97, 118, 111, 121>>
\* "The_Savoy"
in_The_Savoy_us == <<84, 104, 101, 95, 83, 97, 118, 111, 121>>
\* "pod hotel brooklyn"
in_pod_hotel_brooklyn ==
    <<112, 111, 100, 32, 104, 111, 116, 101, 108, 32, 98, 114, 111, 111, 107, 108, 121, 110>>
\* "Search_Hotels"
name_Search_Hotels == <<83, 101, 97, 114, 99, 104, 95, 72, 111, 116, 101, 108, 115>>
\* "book_hotel"
name_book_hotel == <<98, 111, 111, 107, 95, 104, 111, 116, 101, 108>>

\* the key of the i-th catalog entry and the name of its j-th hotel, as written in the source
KeyOf(i) == HotelDataLiteral[i].key
NameOf(i, j) == HotelDataLiteral[i].value[j].name

\* test_queries of main, followed by user_query
Queries ==
    <<"What hotels are available in Tokyo under $300 per night?",
      "Show me details for The Savoy hotel in London and calculate the cost for 5 nights",
      "What are all the available booking locations?",
      "Find me a luxury hotel in Dubai with spa facilities",
      "What's the cheapest hotel in Paris?">>
NumQueries == Len(Queries)

NoArgs == [x \in {} |-> 0]
NoToolCall == [name |-> <<>>, args |-> NoArgs, id |-> 0]

\* the tool calls the chat model may ask for: the four tools, a tool name in another
\* case, a name that is no tool, a call without its required argument, an unknown place
ToolCallPool ==
    { [name |-> tool_search_hotels, args |-> [location |-> in_Tokyo, max_price |-> 300]],
      [name |-> name_Search_Hotels, args |-> [location |-> KeyOf(3)]],
      [name |-> tool_search_hotels, args |-> [location |-> in_atlantis]],
      [name |-> tool_search_hotels, args |-> NoArgs],
      [name |-> tool_get_hotel_details,
       args |-> [location |-> KeyOf(4), hotel_name |-> in_the_savoy]],
      [name |-> tool_calculate_booking_cost, args |-> [price_per_night |-> 590, nights |-> 5]],
      [name |-> tool_get_available_locations, args |-> NoArgs],
      [name |-> name_book_hotel, args |-> [location |-> KeyOf(4)]] }

\* the replies of the chat model: a text, possibly empty, and no tool call, or no text
\* and up to MaxToolCalls tool calls, the k-th carrying the id k
ModelReplies ==
    { [content |-> c, tool_calls |-> <<>>] : c \in {"", "Tokyo has one hotel under $300."} }
    \cup
    { [content |-> "",
       tool_calls |-> [k \in DOMAIN f |-> [name |-> f[k].name, args |-> f[k].args, id |-> k]]] :
         f \in UNION {[1..m -> ToolCallPool] : m \in 1..MaxToolCalls} }

FinalContents == {"", "Here is what I found."}
ModelFailures == {"Request timed out."}

LocationInputs ==
    {KeyOf(i) : i \in 1..Len(HotelDataLiteral)}
    \cup {in_Tokyo, in_TOKYO, in_New_York, in_new_york_sp, in_NEW_YORK, in_new__york,
          in_atlantis, in_to_kyo, <<>>}
MaxPriceInputs == {10 * k : k \in -1..MaxPriceTens}
HotelNameInputs ==
    UNION {{NameOf(i, j) : j \in 1..Len(HotelDataLiteral[i].value)} :
           i \in 1..Len(HotelDataLiteral)}
    \cup {in_the_savoy, in_THE_SAVOY, in_savoy, in_The_Savoy_us, in_pod_hotel_brooklyn, <<>>}
PriceInputs == {-100, -1, 0, 1, 99, 100, 590}
NightsInputs == -1..MaxNights
TaxRateInputs == {-50, 0, 5, 70, 75, 120, 125, 1000}

-----------------------------------------------------------------------------
(* main and process_hotel_query.                                           *)

\* the locals of a fresh call of process_hotel_query
FreshCall ==
    /\ messages' = <<>>
    /\ ai_msg' = None
    /\ final_response' = None
    /\ tc' = 1
    /\ results' = <<>>
    /\ tool_call' = NoToolCall
    /\ tool_output' = NoArgs
    /\ response' = <<>>
    /\ llm_log' = <<>>
    /\ tool_log' = <<>>

Init ==
    /\ HOTEL_DATA = HotelDataLiteral
    /\ api_key \in BOOLEAN
    /\ pc = "get_llm"
    /\ qi = 1
    /\ messages = <<>>
    /\ ai_msg = None
    /\ final_response = None
    /\ tc = 1
    /\ results = <<>>
    /\ tool_call = NoToolCall
    /\ tool_output = NoArgs
    /\ response = <<>>
    /\ llm_log = <<>>
    /\ tool_log = <<>>
    /\ printed = 0
    /\ probe = None

\* get_llm() with the key set, bind_tools, messages = [HumanMessage(query)]
GetLlm ==
    /\ pc = "get_llm"
    /\ api_key
    /\ messages' = <<HumanMessage(Queries[qi])>>
    /\ pc' = "invoke1"
    /\ UNCHANGED <<HOTEL_DATA, api_key, qi, ai_msg, final_response, tc, results, tool_call,
                   tool_output, response, llm_log, tool_log, printed, probe>>

\* get_llm() without the key raises; the handler of process_hotel_query returns the text
GetLlmNoKey ==
    /\ pc = "get_llm"
    /\ ~api_key
    /\ response' = ErrorResponse("OPENAI_API_KEY not set.")
    /\ pc' = "returned"
    /\ UNCHANGED <<HOTEL_DATA, api_key, qi, messages, ai_msg, final_response, tc, results,
                   tool_call, tool_output, llm_log, tool_log, printed, probe>>

\* the first llm_with_tools.invoke(messages) answers
FirstReply(reply) ==
    /\ pc = "invoke1"
    /\ llm_log' = Append(llm_log, messages)
    /\ ai_msg' = Some(reply)
    /\ IF reply.tool_calls # <<>>
       THEN /\ results' = <<>>
            /\ tc' = 1
            /\ pc' = "tool_loop"
            /\ UNCHANGED response
       ELSE /\ response' = Text(reply.content)
            /\ pc' = "returned"
            /\ UNCHANGED <<results, tc>>
    /\ UNCHANGED <<HOTEL_DATA, api_key, qi, messages, final_response, tool_call,
                   tool_output, tool_log, printed, probe>>

\* the first llm_with_tools.invoke(messages) raises
FirstReplyFails(e) ==
    /\ pc = "invoke1"
    /\ llm_log' = Append(llm_log, messages)
    /\ response' = ErrorResponse(e)
    /\ pc' = "returned"
    /\ UNCHANGED <<HOTEL_DATA, api_key, qi, messages, ai_msg, final_response, tc, results,
                   tool_call, tool_output, tool_log, printed, probe>>

\* where the loop over ai_msg[1].tool_calls goes after the call at index i
AfterToolCall(i) == IF i < Len(ai_msg[1].tool_calls) THEN "tool_loop" ELSE "invoke2"

\* one pass of the loop: the name selects no tool
SkipToolCall ==
    /\ pc = "tool_loop"
    /\ LET call == ai_msg[1].tool_calls[tc]
       IN  /\ SelectTool(call.name) = None
           /\ tool_call' = call
    /\ tc' = tc + 1
    /\ pc' = AfterToolCall(tc)
    /\ UNCHANGED <<HOTEL_DATA, api_key, qi, messages, ai_msg, final_response, results,
                   tool_output, response, llm_log, tool_log, printed, probe>>

\* one pass of the loop: the selected tool runs
RunToolCall ==
    /\ pc = "tool_loop"
    /\ LET call == ai_msg[1].tool_calls[tc]
           selected_tool == SelectTool(call.name)
       IN  /\ selected_tool # None
           /\ ~ToolInvoke(selected_tool[1], call.args).raised
           /\ LET out == ToolInvoke(selected_tool[1], call.args).output
              IN  /\ tool_call' = call
                  /\ tool_output' = out
                  /\ HOTEL_DATA' = CatalogAfterTool(selected_tool[1], call.args)
                  /\ results' = Append(results, ToolResultText(call.name, out))
                  /\ messages' = Append(messages, ToolMessage(Str(out), call.id))
                  /\ tool_log' = Append(tool_log, call)
                  /\ probe' \in IF probe = None
                                THEN {None, Some([tool |-> selected_tool[1],
                                                  args |-> call.args, output |-> out])}
                                ELSE {probe}
    /\ tc' = tc + 1
    /\ pc' = AfterToolCall(tc)
    /\ UNCHANGED <<api_key, qi, ai_msg, final_response, response, llm_log, printed>>

\* one pass of the loop: the selected tool's invocation raises
RunToolCallFails ==
    /\ pc = "tool_loop"
    /\ LET call == ai_msg[1].tool_calls[tc]
           selected_tool == SelectTool(call.name)
       IN  /\ selected_tool # None
           /\ ToolInvoke(selected_tool[1], call.args).raised
           /\ tool_call' = call
           /\ tool_log' = Append(tool_log, call)
           /\ response' = ErrorResponse(ToolInvoke(selected_tool[1], call.args).exception)
    /\ pc' = "returned"
    /\ UNCHANGED <<HOTEL_DATA, api_key, qi, messages, ai_msg, final_response, tc, results,
                   tool_output, llm_log, printed, probe>>

\* the second llm_with_tools.invoke(messages) answers
FinalReply(content) ==
    /\ pc = "invoke2"
    /\ llm_log' = Append(llm_log, FinalTurnMessages(messages))
    /\ final_response' = Some([content |-> content])
    /\ response' = CombinedResponse(results, content)
    /\ pc' = "returned"
    /\ UNCHANGED <<HOTEL_DATA, api_key, qi, messages, ai_msg, tc, results, tool_call,
                   tool_output, tool_log, printed, probe>>

\* the second llm_with_tools.invoke(messages) raises
FinalReplyFails(e) ==
    /\ pc = "invoke2"
    /\ llm_log' = Append(llm_log, FinalTurnMessages(messages))
    /\ response' = ErrorResponse(e)
    /\ pc' = "returned"
    /\ UNCHANGED <<HOTEL_DATA, api_key, qi, messages, ai_msg, final_response, tc, results,
                   tool_call, tool_output, tool_log, printed, probe>>

\* main prints the response and goes on to the next query, or ends
PrintResponse ==
    /\ pc = "returned"
    /\ printed' = printed + 1
    /\ IF qi < NumQueries
       THEN /\ qi' = qi + 1
            /\ pc' = "get_llm"
            /\ FreshCall
       ELSE /\ pc' = "exit"
            /\ UNCHANGED <<qi, messages, ai_msg, final_response, tc, results, tool_call,
                           tool_output, response, llm_log, tool_log>>
    /\ UNCHANGED <<HOTEL_DATA, api_key, probe>>

Next ==
    \/ GetLlm
    \/ GetLlmNoKey
    \/ \E reply \in ModelReplies : FirstReply(reply)
    \/ \E e \in ModelFailures : FirstReplyFails(e)
    \/ SkipToolCall
    \/ RunToolCall
    \/ RunToolCallFails
    \/ \E content \in FinalContents : FinalReply(content)
    \/ \E e \in ModelFailures : FinalReplyFails(e)
    \/ PrintResponse

Spec == Init /\ [][Next]_vars

-----------------------------------------------------------------------------
(* The tools called on their own, with arguments drawn from the input      *)
(* sets: the specification the claims about single tools are checked in.   *)

InitTools ==
    /\ HOTEL_DATA = HotelDataLiteral
    /\ api_key \in BOOLEAN
    /\ pc = "tools"
    /\ qi = 1
    /\ messages = <<>>
    /\ ai_msg = None
    /\ final_response = None
    /\ tc = 1
    /\ results = <<>>
    /\ tool_call = NoToolCall
    /\ tool_output = NoArgs
    /\ response = <<>>
    /\ llm_log = <<>>
    /\ tool_log = <<>>
    /\ printed = 0
    /\ probe = None

\* tool.invoke(args): tool_output is the tool's result, or the exception it raised
CallTool(tool, args) ==
    /\ pc = "tools"
    /\ pc' = "called"
    /\ tool_call' = [name |-> tool, args |-> args, id |-> 0]
    /\ tool_output' = IF ToolInvoke(tool, args).raised
                      THEN [exception |-> ToolInvoke(tool, args).exception]
                      ELSE ToolInvoke(tool, args).output
    /\ HOTEL_DATA' = CatalogAfterTool(tool, args)
    /\ UNCHANGED <<api_key, qi, messages, ai_msg, final_response, tc, results,
                   response, llm_log, tool_log, printed, probe>>

CallSearchHotels ==
    \E location \in LocationInputs :
        \/ CallTool(tool_search_hotels, [location |-> location])
        \/ \E max_price \in MaxPriceInputs :
               CallTool(tool_search_hotels, [location |-> location, max_price |-> max_price])

CallGetHotelDetails ==
    \E location \in LocationInputs, hotel_name \in HotelNameInputs :
        CallTool(tool_get_hotel_details, [location |-> location, hotel_name |-> hotel_name])

CallCalculateBookingCost ==
    \E price_per_night \in PriceInputs, nights \in NightsInputs :
        \/ CallTool(tool_calculate_booking_cost,
                    [price_per_night |-> price_per_night, nights |-> nights])
        \/ \E tax_rate \in TaxRateInputs :
               CallTool(tool_calculate_booking_cost,
                        [price_per_night |-> price_per_night, nights |-> nights,
                         tax_rate |-> tax_rate])

CallGetAvailableLocations == CallTool(tool_get_available_locations, NoArgs)

\* the caller drops the result and is ready for the next call
DropResult ==
    /\ pc = "called"
    /\ pc' = "tools"
    /\ tool_call' = NoToolCall
    /\ tool_output' = NoArgs
    /\ UNCHANGED <<HOTEL_DATA, api_key, qi, messages, ai_msg, final_response, tc, results,
                   response, llm_log, tool_log, printed, probe>>

NextTools ==
    \/ CallSearchHotels
    \/ CallGetHotelDetails
    \/ CallCalculateBookingCost
    \/ CallGetAvailableLocations
    \/ DropResult

SpecTools == InitTools /\ [][NextTools]_vars

-----------------------------------------------------------------------------
(* main of main.py, whose tools and catalog are those of main2.py line for *)
(* line.  For each of its queries process_hotel_query is first run on the  *)
(* same query; what it did is kept in probe, and the loop body of main.py  *)
(* then runs against the same reply of the chat model.                     *)

\* queries of main
queries ==
    <<"What hotels are available in Tokyo under $300 per night?",
      "Show me details for The Savoy hotel in London and calculate the cost for 5 nights",
      "What are all the available booking locations?">>

\* the greeting main sends before it binds the tools
Hello == "Hello! I'm looking for help with hotel bookings."

InitPair ==
    /\ HOTEL_DATA = HotelDataLiteral
    /\ api_key \in BOOLEAN
    /\ pc = "m_get_llm"
    /\ qi = 1
    /\ messages = <<>>
    /\ ai_msg = None
    /\ final_response = None
    /\ tc = 1
    /\ results = <<>>
    /\ tool_call = NoToolCall
    /\ tool_output = NoArgs
    /\ response = <<>>
    /\ llm_log = <<>>
    /\ tool_log = <<>>
    /\ printed = 0
    /\ probe = None

\* llm = get_llm() with the key set; the banner is printed
MainGetLlm ==
    /\ pc = "m_get_llm"
    /\ api_key
    /\ printed' = printed + 2
    /\ pc' = "m_hello"
    /\ UNCHANGED <<HOTEL_DATA, api_key, qi, messages, ai_msg, final_response, tc, results,
                   tool_call, tool_output, response, llm_log, tool_log, probe>>

\* get_llm() without the key raises: main's handler takes over
MainGetLlmNoKey ==
    /\ pc = "m_get_llm"
    /\ ~api_key
    /\ pc' = "m_except"
    /\ UNCHANGED <<HOTEL_DATA, api_key, qi, messages, ai_msg, final_response, tc, results,
                   tool_call, tool_output, response, llm_log, tool_log, printed, probe>>

\* llm.invoke([HumanMessage(Hello)]) answers; the answer is printed, the tools are bound
MainHello ==
    /\ pc = "m_hello"
    /\ llm_log' = Append(llm_log, <<HumanMessage(Hello)>>)
    /\ printed' = printed + 2
    /\ pc' = "m_for"
    /\ UNCHANGED <<HOTEL_DATA, api_key, qi, messages, ai_msg, final_response, tc, results,
                   tool_call, tool_output, response, tool_log, probe>>

\* llm.invoke([HumanMessage(Hello)]) raises
MainHelloFails(e) ==
    /\ pc = "m_hello"
    /\ llm_log' = Append(llm_log, <<HumanMessage(Hello)>>)
    /\ pc' = "m_except"
    /\ UNCHANGED <<HOTEL_DATA, api_key, qi, messages, ai_msg, final_response, tc, results,
                   tool_call, tool_output, response, tool_log, printed, probe>>

\* at the head of main's loop, process_hotel_query(Queries[qi]) is called first
CallProcessHotelQuery ==
    /\ pc = "m_for"
    /\ pc' = "get_llm"
    /\ FreshCall
    /\ UNCHANGED <<HOTEL_DATA, api_key, qi, printed, probe>>

\* process_hotel_query has returned: what it did is kept, and main's loop body starts
KeepForComparison ==
    /\ pc = "returned"
    /\ probe' = Some([ai_msg |-> ai_msg, messages |-> messages, llm_log |-> llm_log,
                      tool_log |-> tool_log, response |-> response])
    /\ pc' = "m_query"
    /\ FreshCall
    /\ UNCHANGED <<HOTEL_DATA, api_key, qi, printed>>

\* the query and a rule are printed; messages = [HumanMessage(query)]
MainQuery ==
    /\ pc = "m_query"
    /\ printed' = printed + 2
    /\ messages' = <<HumanMessage(queries[qi])>>
    /\ pc' = "m_invoke"
    /\ UNCHANGED <<HOTEL_DATA, api_key, qi, ai_msg, final_response, tc, results, tool_call,
                   tool_output, response, llm_log, tool_log, probe>>

\* llm_with_tools.invoke(messages) answers; without tool calls the content is printed
MainReply(reply) ==
    /\ pc = "m_invoke"
    /\ llm_log' = Append(llm_log, messages)
    /\ ai_msg' = Some(reply)
    /\ tc' = 1
    /\ IF reply.tool_calls # <<>>
       THEN /\ pc' = "m_tool_loop"
            /\ UNCHANGED printed
       ELSE /\ printed' = printed + 1
            /\ pc' = "m_done"
    /\ UNCHANGED <<HOTEL_DATA, api_key, qi, messages, final_response, results, tool_call,
                   tool_output, response, tool_log, probe>>

\* llm_with_tools.invoke(messages) raises
MainReplyFails(e) ==
    /\ pc = "m_invoke"
    /\ llm_log' = Append(llm_log, messages)
    /\ pc' = "m_except"
    /\ UNCHANGED <<HOTEL_DATA, api_key, qi, messages, ai_msg, final_response, tc, results,
                   tool_call, tool_output, response, tool_log, printed, probe>>

\* where main's loop over ai_msg[1].tool_calls goes after the call at index i
MainAfterToolCall(i) == IF i < Len(ai_msg[1].tool_calls) THEN "m_tool_loop" ELSE "m_done"

\* one pass of main's loop: the name selects no tool
MainSkipToolCall ==
    /\ pc = "m_tool_loop"
    /\ LET call == ai_msg[1].tool_calls[tc]
       IN  /\ SelectTool(call.name) = None
           /\ tool_call' = call
    /\ tc' = tc + 1
    /\ pc' = MainAfterToolCall(tc)
    /\ UNCHANGED <<HOTEL_DATA, api_key, qi, messages, ai_msg, final_response, results,
                   tool_output, response, llm_log, tool_log, printed, probe>>

\* one pass of main's loop: the selected tool runs, its name and result are printed
MainRunToolCall ==
    /\ pc = "m_tool_loop"
    /\ LET call == ai_msg[1].tool_calls[tc]
           selected_tool == SelectTool(call.name)
       IN  /\ selected_tool # None
           /\ ~ToolInvoke(selected_tool[1], call.args).raised
           /\ LET out == ToolInvoke(selected_tool[1], call.args).output
              IN  /\ tool_call' = call
                  /\ tool_output' = out
                  /\ HOTEL_DATA' = CatalogAfterTool(selected_tool[1], call.args)
                  /\ messages' = Append(messages, ToolMessage(Str(out), call.id))
                  /\ tool_log' = Append(tool_log, call)
    /\ printed' = printed + 2
    /\ tc' = tc + 1
    /\ pc' = MainAfterToolCall(tc)
    /\ UNCHANGED <<api_key, qi, ai_msg, final_response, results, response, llm_log, probe>>

\* one pass of main's loop: the selected tool's invocation raises
MainRunToolCallFails ==
    /\ pc = "m_tool_loop"
    /\ LET call == ai_msg[1].tool_calls[tc]
           selected_tool == SelectTool(call.name)
       IN  /\ selected_tool # None
           /\ ToolInvoke(selected_tool[1], call.args).raised
           /\ tool_call' = call
           /\ tool_log' = Append(tool_log, call)
    /\ pc' = "m_except"
    /\ UNCHANGED <<HOTEL_DATA, api_key, qi, messages, ai_msg, final_response, tc, results,
                   tool_output, response, llm_log, printed, probe>>

\* the closing rule is printed; main goes on to its next query, or ends
MainEndQuery ==
    /\ pc = "m_done"
    /\ printed' = printed + 1
    /\ IF qi < Len(queries)
       THEN /\ qi' = qi + 1
            /\ pc' = "m_for"
            /\ probe' = None
            /\ FreshCall
       ELSE /\ pc' = "m_exit"
            /\ UNCHANGED <<qi, messages, ai_msg, final_response, tc, results, tool_call,
                           tool_output, response, llm_log, tool_log, probe>>
    /\ UNCHANGED <<HOTEL_DATA, api_key>>

\* main's handler prints the error and the advice, and main ends
MainExcept ==
    /\ pc = "m_except"
    /\ printed' = printed + 4
    /\ pc' = "m_exit"
    /\ UNCHANGED <<HOTEL_DATA, api_key, qi, messages, ai_msg, final_response, tc, results,
                   tool_call, tool_output, response, llm_log, tool_log, probe>>

\* main's call of the chat model gets the reply process_hotel_query's first call got
MainSameReply ==
    /\ pc = "m_invoke"
    /\ \E reply \in ModelReplies : probe[1].ai_msg = Some(reply) /\ MainReply(reply)

\* main's call of the chat model fails as process_hotel_query's first call did
MainSameFailure ==
    /\ pc = "m_invoke"
    /\ \E e \in ModelFailures :
           /\ probe[1].ai_msg = None
           /\ probe[1].response = ErrorResponse(e)
           /\ MainReplyFails(e)

NextPair ==
    \/ MainGetLlm
    \/ MainGetLlmNoKey
    \/ MainHello
    \/ \E e \in ModelFailures : MainHelloFails(e)
    \/ CallProcessHotelQuery
    \/ GetLlm
    \/ \E reply \in ModelReplies : FirstReply(reply)
    \/ \E e \in ModelFailures : FirstReplyFails(e)
    \/ SkipToolCall
    \/ RunToolCall
    \/ RunToolCallFails
    \/ \E content \in FinalContents : FinalReply(content)
    \/ \E e \in ModelFailures : FinalReplyFails(e)
    \/ KeepForComparison
    \/ MainQuery
    \/ MainSameReply
    \/ MainSameFailure
    \/ MainSkipToolCall
    \/ MainRunToolCall
    \/ MainRunToolCallFails
    \/ MainEndQuery
    \/ MainExcept

SpecPair == InitPair /\ [][NextPair]_vars

-----------------------------------------------------------------------------
(* What the claims speak of, stated apart from the operators of the model. *)

\* the five configured location keys: new_york, paris, tokyo, london, dubai
ConfiguredKeys ==
    <<<<110, 101, 119, 95, 121, 111, 114, 107>>,
      <<112, 97, 114, 105, 115>>,
      <<116, 111, 107, 121, 111>>,
      <<108, 111, 110, 100, 111, 110>>,
      <<100, 117, 98, 97, 105>>>>

\* a location input with its capitals lowered and its spaces made underscores
ExpectedKey(location) ==
    [i \in 1..Len(location) |->
        IF location[i] = 32 THEN 95
        ELSE IF location[i] \in 65..90 THEN location[i] + 32
        ELSE location[i]]

IsValidLocation(location) ==
    \E i \in 1..Len(ConfiguredKeys) : ConfiguredKeys[i] = ExpectedKey(location)

\* the records configured for a valid location, in catalog order
ConfiguredHotels(location) ==
    HotelDataLiteral[CHOOSE i \in 1..Len(HotelDataLiteral) :
                         HotelDataLiteral[i].key = ExpectedKey(location)].value

\* a == b up to the case of the letters
EqIgnoreCase(a, b) ==
    /\ Len(a) = Len(b)
    /\ \A i \in 1..Len(a) :
           (IF a[i] \in 97..122 THEN a[i] - 32 ELSE a[i])
               = (IF b[i] \in 97..122 THEN b[i] - 32 ELSE b[i])

\* sub occurs in text
Occurs(sub, text) ==
    \E k \in 0..(Len(text) - Len(sub)) : SubSeq(text, k + 1, k + Len(sub)) = sub

ListsConfiguredKeys(text) ==
    \A i \in 1..Len(ConfiguredKeys) : Occurs(ConfiguredKeys[i], text)

\* the tool was called on its own and tool_output holds what came of it
Called(tool) == pc = "called" /\ tool_call.name = tool
Raised(out) == "exception" \in DOMAIN out
IsError(out) == "error" \in DOMAIN out

-----------------------------------------------------------------------------
(* C5: locations are normalised; an unknown location gives an error value. *)

\* C5 as stated: search_hotels and get_hotel_details take a location for the key it
\* has once lowered and with underscores for spaces; when that key is not in the
\* catalog each returns, without raising, an object with an error field that lists
\* the valid location keys.
C5_UnknownLocationListsKeys ==
    (Called(tool_search_hotels) \/ Called(tool_get_hotel_details)) =>
        /\ ~Raised(tool_output)
        /\ ~IsValidLocation(tool_call.args.location) =>
               /\ IsError(tool_output)
               /\ ListsConfiguredKeys(tool_output.error)

\* C5 as the code has it: both tools normalise the location the same way and return,
\* without raising, an object with an error field when the key is unknown; the error of
\* search_hotels lists the valid keys, the error of get_hotel_details is
\* "Location '<location>' not found" and lists none.  A location whose key is known
\* gives no such error.
C5_UnknownLocationIsError ==
    /\ Called(tool_search_hotels) =>
           /\ ~Raised(tool_output)
           /\ IsError(tool_output) <=> ~IsValidLocation(tool_call.args.location)
           /\ IsError(tool_output) =>
                  /\ ListsConfiguredKeys(tool_output.error)
                  /\ Occurs(tool_call.args.location, tool_output.error)
    /\ Called(tool_get_hotel_details) =>
           /\ ~Raised(tool_output)
           /\ ~IsValidLocation(tool_call.args.location) =>
                  /\ IsError(tool_output)
                  /\ tool_output.error
                         = txt_location \o tool_call.args.location \o txt_not_found
                  /\ \A i \in 1..Len(ConfiguredKeys) :
                         ~Occurs(ConfiguredKeys[i], tool_output.error)
           /\ IsValidLocation(tool_call.args.location) =>
                  (IsError(tool_output) => tool_output.error[1] # txt_location[1])

\* get_hotel_details was called for "atlantis" and returned its error
C5_Witness ==
    /\ Called(tool_get_hotel_details)
    /\ tool_call.args.location = in_atlantis
    /\ IsError(tool_output)

-----------------------------------------------------------------------------
(* C6: search_hotels filters by availability and price.                    *)

\* C6: for a valid location and any max_price, absent or an integer, 0 included,
\* search_hotels returns exactly the location's records that are available and, with a
\* max_price, cost at most max_price a night, in catalog order, and total_available is
\* the length of that list; for tokyo with max_price 300 it is the one record at 290.
C6_SearchHotelsFilters ==
    (Called(tool_search_hotels) /\ IsValidLocation(tool_call.args.location)) =>
        LET args == tool_call.args
            filtered == "max_price" \in DOMAIN args
            expected ==
                SelectSeq(ConfiguredHotels(args.location),
                          LAMBDA h : /\ h.availability
                                     /\ filtered => h.price_per_night <= args.max_price)
        IN  /\ ~Raised(tool_output)
            /\ ~IsError(tool_output)
            /\ tool_output.hotels = expected
            /\ tool_output.total_available = Len(tool_output.hotels)
            /\ (ExpectedKey(args.location) = ConfiguredKeys[3] /\ filtered
                    /\ args.max_price = 300) =>
                   /\ Len(tool_output.hotels) = 1
                   /\ tool_output.hotels[1].price_per_night = 290

\* search_hotels("Tokyo", max_price=300) returned its one record
C6_Witness ==
    /\ Called(tool_search_hotels)
    /\ tool_call.args = [location |-> in_Tokyo, max_price |-> 300]
    /\ ~IsError(tool_output)
    /\ tool_output.total_available = 1

-----------------------------------------------------------------------------
(* C7: get_hotel_details finds a hotel by name, whatever the case.         *)

\* C7: for a valid location and any hotel name, get_hotel_details returns the first
\* record of the location, in catalog order, whose name is the given one up to case,
\* available or not, with estimated_weekly_cost 7 and estimated_monthly_cost 30 times
\* its price_per_night (4130 and 17700 for london, "the savoy"), and an error value
\* when no record of the location has that name.
C7_HotelDetailsFirstMatch ==
    (Called(tool_get_hotel_details) /\ IsValidLocation(tool_call.args.location)) =>
        LET args == tool_call.args
            hotels == ConfiguredHotels(args.location)
            hits == {i \in 1..Len(hotels) : EqIgnoreCase(hotels[i].name, args.hotel_name)}
        IN  /\ ~Raised(tool_output)
            /\ IsError(tool_output) <=> hits = {}
            /\ hits # {} =>
                   LET first == CHOOSE i \in hits : \A j \in hits : i <= j
                   IN  /\ tool_output.hotel_details = hotels[first]
                       /\ tool_output.estimated_weekly_cost
                              = hotels[first].price_per_night * 7
                       /\ tool_output.estimated_monthly_cost
                              = hotels[first].price_per_night * 30
            /\ (ExpectedKey(args.location) = ConfiguredKeys[4]
                    /\ args.hotel_name = in_the_savoy) =>
                   /\ ~IsError(tool_output)
                   /\ tool_output.estimated_weekly_cost = 4130
                   /\ tool_output.estimated_monthly_cost = 17700

\* get_hotel_details("london", "the savoy") returned the Savoy's record
C7_Witness ==
    /\ Called(tool_get_hotel_details)
    /\ tool_call.args = [location |-> ConfiguredKeys[4], hotel_name |-> in_the_savoy]
    /\ ~IsError(tool_output)
    /\ tool_output.hotel_details.price_per_night = 590

-----------------------------------------------------------------------------
(* C9: calculate_booking_cost.                                             *)

\* C9: for all price_per_night and nights, negative ones included, and every tax_rate
\* that is a whole number of hundredths, calculate_booking_cost returns subtotal =
\* price_per_night * nights, tax = subtotal * tax_rate and total_cost = subtotal + tax,
\* both to 2 decimal places, so that total_cost is subtotal plus tax as returned;
\* tax_rate is 0.12 when not given, and (100, 5, 0.12) gives 500, 60.00 and 560.00.
\* tax and total_cost are in hundredths here, tax_rate in thousandths.
C9_BookingCost ==
    Called(tool_calculate_booking_cost) =>
        LET args == tool_call.args
            rate == IF "tax_rate" \in DOMAIN args THEN args.tax_rate ELSE 120
            subtotal == args.price_per_night * args.nights
        IN  /\ ~Raised(tool_output)
            /\ ~IsError(tool_output)
            /\ tool_output.subtotal = subtotal
            /\ rate % 10 = 0 =>
                   /\ tool_output.tax = subtotal * (rate \div 10)
                   /\ tool_output.total_cost = subtotal * 100 + subtotal * (rate \div 10)
                   /\ tool_output.total_cost = tool_output.subtotal * 100 + tool_output.tax
            /\ (args.price_per_night = 100 /\ args.nights = 5 /\ rate = 120) =>
                   /\ tool_output.subtotal = 500
                   /\ tool_output.tax = 6000
                   /\ tool_output.total_cost = 56000

\* calculate_booking_cost(100, 5) ran with the default tax rate
C9_Witness ==
    /\ Called(tool_calculate_booking_cost)
    /\ tool_call.args = [price_per_night |-> 100, nights |-> 5]
    /\ tool_output.total_cost = 56000

-----------------------------------------------------------------------------
(* What the claims about process_hotel_query speak of.                     *)

\* the names under which the registry holds the four tools
RegistryNames ==
    {tool_search_hotels, tool_get_hotel_details, tool_calculate_booking_cost,
     tool_get_available_locations}

\* a tool name with its capitals lowered
LoweredName(name) ==
    [i \in 1..Len(name) |-> IF name[i] \in 65..90 THEN name[i] + 32 ELSE name[i]]

\* the model has replied to the first call and asked for tools
AskedForTools == ai_msg # None /\ ai_msg[1].tool_calls # <<>>
\* an invocation of a tool raised and ended the query
ToolRaised ==
    AskedForTools /\ pc \in {"returned", "exit"} /\ tc <= Len(ai_msg[1].tool_calls)
\* the tool calls the loop has been through
HandledCalls == SubSeq(ai_msg[1].tool_calls, 1, tc - 1)

\* what the tool named by a call returns for the call's arguments
OutputOf(call) == ToolInvoke(LoweredName(call.name), call.args).output

\* the conversation after the given calls were run: the query, then a tool-result turn
\* for each call with the call's id
ConversationAfter(calls) ==
    <<[type |-> "human", content |-> <<[lit |-> Queries[qi]]>>, tool_call_id |-> 0]>>
    \o [k \in 1..Len(calls) |->
           [type |-> "tool", content |-> <<[repr |-> OutputOf(calls[k])]>>,
            tool_call_id |-> calls[k].id]]

\* the returned text: per run call "Tool: <name>\nResult: <result>", then "AI Response:
\* <text>" when the final text is not empty, a blank line between them
ReturnedText(calls, final_text) ==
    LET part(k) ==
            IF k <= Len(calls)
            THEN <<[lit |-> "Tool: "], [chars |-> calls[k].name], [lit |-> "\nResult: "],
                   [repr |-> OutputOf(calls[k])]>>
            ELSE <<[lit |-> "AI Response: "], [lit |-> final_text]>>
        n == Len(calls) + (IF final_text # "" THEN 1 ELSE 0)
        upto[k \in 0..n] ==
            IF k = 0 THEN <<>>
            ELSE IF k = 1 THEN part(1)
            ELSE upto[k - 1] \o <<[lit |-> "\n\n"]>> \o part(k)
    IN  upto[n]

\* the tool calls are handled in the order of the reply: the calls among the handled ones
\* that Known admits were each invoked once, with their arguments, in that order, each
\* result entered in the conversation under its call's id, and no other call left a trace;
\* after a final reply the returned text lists those results in that order, the final
\* text last
HandlesCallsInOrder(Known(_)) ==
    /\ (AskedForTools /\ ~ToolRaised) =>
           LET run == SelectSeq(HandledCalls, Known)
           IN  /\ tool_log = run
               /\ messages = ConversationAfter(run)
               /\ Len(results) = Len(run)
               /\ (pc = "returned" /\ final_response # None) =>
                      response = ReturnedText(run, final_response[1].content)

-----------------------------------------------------------------------------
(* C1: the tool calls of the first reply are handled in order.             *)

-----------------------------------------------------------------------------
(* C2: one or two model calls per query.                                   *)

\* the model calls of a query so far: at most two, the first with the query alone, a
\* second only after the loop went through every tool call, with the query followed by
\* the tool results
TwoRounds ==
    /\ Len(llm_log) <= 2
    /\ Len(llm_log) >= 1 =>
           llm_log[1]
               = <<[type |-> "human", content |-> <<[lit |-> Queries[qi]]>>,
                    tool_call_id |-> 0]>>
    /\ Len(llm_log) = 2 =>
           /\ AskedForTools
           /\ tc = Len(ai_msg[1].tool_calls) + 1
           /\ llm_log[2] = ConversationAfter(tool_log)

\* C2 as stated: a reply without tool calls ends the query after one model call, its
\* text returned as it is; otherwise the model is called exactly twice, the second time
\* after all the tool calls, with the query followed by the tool results, and nothing
\* is returned before the second call is over.
C2_AlwaysTwoCalls ==
    /\ TwoRounds
    /\ (pc = "returned" /\ ai_msg # None) =>
           IF ai_msg[1].tool_calls = <<>>
           THEN /\ Len(llm_log) = 1
                /\ response = (IF ai_msg[1].content = "" THEN <<>>
                               ELSE <<[lit |-> ai_msg[1].content]>>)
           ELSE Len(llm_log) = 2

\* C2 as the code has it: the same, but for a query in which a tool invocation raises:
\* that query ends there, after one model call, with the error text.
C2_TwoCallsUnlessToolRaises ==
    /\ TwoRounds
    /\ (pc = "returned" /\ ai_msg # None) =>
           IF ai_msg[1].tool_calls = <<>>
           THEN /\ Len(llm_log) = 1
                /\ response = (IF ai_msg[1].content = "" THEN <<>>
                               ELSE <<[lit |-> ai_msg[1].content]>>)
           ELSE IF ToolRaised
           THEN /\ Len(llm_log) = 1
                /\ response = <<[lit |-> "Error processing query: "],
                                [lit |-> "validation error"]>>
           ELSE Len(llm_log) = 2

\* a query returned after two tool calls were run and the model had answered the second
\* call, which carried the query and the two results
C2_Witness ==
    /\ pc = "returned"
    /\ Len(llm_log) = 2
    /\ Len(llm_log[2]) = 3
    /\ final_response # None

-----------------------------------------------------------------------------
(* C3: a missing API key.                                                  *)

\* C3: without the API key the program aborts before any query is processed: no query
\* reaches the model or a tool, and no per-query result is produced.
C3_NoKeyNoResult ==
    ~api_key =>
        /\ llm_log = <<>>
        /\ tool_log = <<>>
        /\ pc # "returned"
        /\ printed = 0

-----------------------------------------------------------------------------
(* C4: a failure of the chat model.                                        *)

\* the first or the second model call of the query raised
ModelFailed ==
    /\ pc = "returned"
    /\ \/ Len(llm_log) = 1 /\ ai_msg = None
       \/ Len(llm_log) = 2 /\ final_response = None

\* C4: a failure of the chat model in either round is caught and returned as the text
\* "Error processing query: <message>" for that query; the failing call is not made
\* again; each response is printed once; the catalog is as it was; and main goes on
\* with the next query.
C4_ModelFailureIsReturned ==
    /\ [](/\ ModelFailed =>
                /\ \E e \in ModelFailures :
                       response = <<[lit |-> "Error processing query: "], [lit |-> e]>>
                /\ HOTEL_DATA = HotelDataLiteral
          /\ Len(llm_log) <= (IF ai_msg = None THEN 1 ELSE 2)
          /\ printed = (qi - 1) + (IF pc = "exit" THEN 1 ELSE 0))
    /\ [][pc = "returned" =>
              /\ printed' = printed + 1
              /\ qi < NumQueries => (qi' = qi + 1 /\ pc' = "get_llm" /\ llm_log' = <<>>)
              /\ qi = NumQueries => pc' = "exit"]_vars

\* the second query's final model call failed after a tool had run
C4_Witness ==
    /\ ModelFailed
    /\ qi = 2
    /\ Len(llm_log) = 2
    /\ tool_log # <<>>

-----------------------------------------------------------------------------
(* C8: the tools repeat their results and leave the catalog alone.         *)

\* C8: a tool invoked again with the arguments of an earlier invocation (the probe)
\* returns the same result, and the catalog is at every point what it was at the start.
C8_ToolsRepeatAndCatalogKept ==
    /\ HOTEL_DATA = HotelDataLiteral
    /\ probe # None =>
           \A k \in 1..(Len(messages) - 1) :
               (LoweredName(tool_log[k].name) = probe[1].tool
                    /\ tool_log[k].args = probe[1].args) =>
                   messages[k + 1].content = <<[repr |-> probe[1].output]>>

\* in the second query search_hotels ran twice with the arguments of the probe
C8_Witness ==
    /\ probe # None
    /\ probe[1].tool = tool_search_hotels
    /\ qi = 2
    /\ pc = "invoke2"
    /\ Len(tool_log) = 2
    /\ tool_log[1].id # tool_log[2].id
    /\ \A k \in 1..2 : /\ LoweredName(tool_log[k].name) = probe[1].tool
                       /\ tool_log[k].args = probe[1].args

-----------------------------------------------------------------------------
(* C10: get_available_locations.                                           *)

\* C10: at every point of a run get_available_locations returns the five configured
\* keys, new_york, paris, tokyo, london, dubai, in that order, with the count 5, the
\* length of the list; so does every invocation the model asks for.
C10_AvailableLocations ==
    /\ get_available_locations.available_locations = ConfiguredKeys
    /\ get_available_locations.total_locations = 5
    /\ get_available_locations.total_locations
           = Len(get_available_locations.available_locations)
    /\ \A k \in 1..(Len(messages) - 1) :
           LoweredName(tool_log[k].name) = tool_get_available_locations =>
               messages[k + 1].content
                   = <<[repr |-> [available_locations |-> ConfiguredKeys,
                                  total_locations |-> 5]]>>

\* the third query had get_available_locations run
C10_Witness ==
    /\ qi = 3
    /\ pc = "invoke2"
    /\ tool_call.name = tool_get_available_locations
    /\ tool_output.total_locations = 5
    /\ Len(tool_output.available_locations) = 5

-----------------------------------------------------------------------------
(* C11: the loop body of main.py beside process_hotel_query of main2.py.   *)

\* main.py's loop body has finished with the query, by reaching its end or by an exception
MainHandledQuery == pc \in {"m_done", "m_except"} /\ probe # None

SameModelCalls == llm_log = probe[1].llm_log
SameToolInvocations == tool_log = probe[1].tool_log
SameConversation == messages = probe[1].messages

\* C11: for the same query and the same reply of the chat model, the loop body of
\* main.py and process_hotel_query make the same calls of the chat model, one after
\* the other, and the same tool invocations, and build the same conversation.
C11_SameLogic ==
    MainHandledQuery => SameModelCalls /\ SameToolInvocations /\ SameConversation

\* the part of C11 that the code keeps: the same tool invocations and the same conversation
C11_SameToolsAndConversation ==
    MainHandledQuery => SameToolInvocations /\ SameConversation

\* main.py has run a tool for the query and is done, and process_hotel_query before it
\* sent the conversation to the chat model a second time
C11_Witness ==
    /\ pc = "m_done"
    /\ probe # None
    /\ tool_log # <<>>
    /\ Len(messages) > 1
    /\ Len(probe[1].llm_log) = 2
    /\ Len(llm_log) = 1

=============================================================================
